---- MODULE Spec2Model ----
(***************************************************************************)
(* Handcrafted Arts Initiative API (src/main.py, src/schemas.py).          *)
(*                                                                         *)
(* The request handlers of the FastAPI application, over the three store   *)
(* collections they write ("artisan", "registration", "event") and the     *)
(* outbound webhook.  One request is processed at a time.  register_artisan*)
(* performs two external calls (the store write, then the webhook POST)    *)
(* and is modelled as two steps; every other handler performs at most one  *)
(* external call and is one step.                                          *)
(*                                                                         *)
(* Strings that the code slices or concatenates (exception messages,       *)
(* identifiers) are sequences of one-character strings.                    *)
(***************************************************************************)
EXTENDS Integers, Sequences, FiniteSets, TLC

VARIABLES
    db,            \* database.db: the store handle, or None
    artisan,       \* collection "artisan": documents in insertion order
    registration,  \* collection "registration"
    event,         \* collection "event"
    sent,          \* every POST issued to the webhook, in order
    pc,            \* "idle", or "forward" inside register_artisan
    req,           \* the request being served (or served last)
    locals,        \* register_artisan's local variables between its two calls
    trace,         \* the external calls of the current request, in order
    resp,          \* the response of the request; status 0 while it is pending
    created        \* history: identifiers returned by successful POST /api/artisans

vars == <<db, artisan, registration, event, sent, pc, req, locals, trace, resp, created>>

stores == <<artisan, registration, event>>

----------------------------------------------------------------------------
(* Bounds of the model. *)

\* Most documents the store holds, over its three collections.
MaxDocs == 3

\* Bulk specification: documents inserted with the filler payload before payloads vary.
BulkFill == 22

\* Bulk specification: most documents in "artisan" (beyond DefaultLimit).
MaxBulk == 25

----------------------------------------------------------------------------
(* Values. *)

\* An Optional value: None, or Some(v).
None == <<>>
Some(v) == <<v>>

\* list_artisans: limit: int = 24
DefaultLimit == 24

\* register_artisan: str(e)[:120]
ForwardErrLen == 120

\* test_database: str(e)[:80]
DiagErrLen == 80

\* test_database: collections[:10]
DiagCollections == 10

Min(a, b) == IF a < b THEN a ELSE b

\* Python's s[:n] for n >= 0.
Prefix(s, n) == SubSeq(s, 1, Min(n, Len(s)))

Digits == <<"0", "1", "2", "3", "4", "5", "6", "7", "8", "9", "a", "b", "c", "d", "e", "f">>

\* A message of n characters, the i-th being the last digit of i.
Msg(n) == [i \in 1..n |-> Digits[(i % 10) + 1]]

\* str(ObjectId): the identifier's hexadecimal digits (never empty).
RECURSIVE OidStr(_)
OidStr(n) ==
    IF n < 16 THEN <<Digits[n + 1]>>
    ELSE OidStr(n \div 16) \o <<Digits[(n % 16) + 1]>>

ObjectId(n) == [oid |-> n]

\* isinstance(v, ObjectId)
IsObjectId(v) == "oid" \in DOMAIN v

\* The three shapes of forward_status: None, an int, a str.
NullV == [t |-> "null"]
IntV(n) == [t |-> "int", v |-> n]
StrV(s) == [t |-> "str", v |-> s]

ErrorPrefix == <<"e", "r", "r", "o", "r", ":", " ">>

----------------------------------------------------------------------------
(* Request inputs. *)

\* Artisan bodies (schemas.Artisan; the optional fields no handler reads are left out).
Payloads ==
    { [name |-> "A", craft_type |-> "pottery",  region |-> "X", featured |-> FALSE],
      [name |-> "B", craft_type |-> "handloom", region |-> "X", featured |-> TRUE],
      [name |-> "C", craft_type |-> "",         region |-> "Y", featured |-> FALSE] }

\* The filler body of the bulk specification.
Filler == [name |-> "A", craft_type |-> "pottery", region |-> "X", featured |-> FALSE]

\* Registration bodies (schemas.Registration); consent=false is a valid body.
Registrations ==
    { [name |-> "R", craft_type |-> "pottery", location |-> "X", phone |-> "1",
       consent |-> c, source |-> "website"] : c \in BOOLEAN }

\* Event bodies (main.Event): meta is None, an empty dict or a dict (a set of pairs).
Events ==
    { [name |-> "view", meta |-> m] : m \in {None, Some({}), Some({<<"k", "v">>})} }

\* (region, featured) query parameters.
RegionFeatured == {<<None, None>>, <<Some("X"), Some(FALSE)>>}

Categories == {None, Some(""), Some("pottery")}
Limits == {-1, 0, 1, DefaultLimit}

\* os.getenv("GOOGLE_SHEETS_WEBHOOK_URL"): unset, empty, or a URL.
WebhookValues == {None, Some(""), Some("https://hook")}

\* Status codes the webhook may answer with.
StatusCodes == {100, 200, 304, 399, 400, 500, 599}

\* Lengths of the exception messages the model raises.
MsgLens == {0, 120, 121, 130}

\* What requests.post(webhook, json=data, timeout=10) can do: the import of
\* requests fails, the call raises, or it returns a response.
PostOutcomes ==
    {[kind |-> "response", status_code |-> s] : s \in StatusCodes}
    \cup {[kind |-> "exception", msg |-> Msg(n)] : n \in MsgLens}
    \cup {[kind |-> "import_error", msg |-> Msg(7)]}

----------------------------------------------------------------------------
(* Document Store Adapter (module database). *)

\* create_document raises when the store is unavailable or rejects the write.
CreateDocumentRaises(rejected) == db = None \/ rejected

\* str(e) of the exception create_document or get_documents raises.
StoreError == IF db = None THEN "Database not available" ELSE "operation rejected"

\* The identifier the store assigns to the next document of a collection: unique
\* over the store (collection k of 3, position Len(coll) + 1).
NewOid(k, coll) == 3 * Len(coll) + k

\* The document create_document inserts: the record under a store-assigned identifier.
StoredDocument(oid, record) == [_id |-> ObjectId(oid)] @@ record

\* The identifier create_document returns: the assigned identifier as a string.
InsertedId(oid) == OidStr(oid)

\* A document matches a filter when every field the filter names is equal.
Matches(d, filt) ==
    \A k \in DOMAIN filt : filt[k] = None \/ d[k] = filt[k][1]

\* get_documents(collection, filt, limit): up to `limit` matching documents, in store order.
GetDocuments(coll, filt, limit) ==
    LET hits == SelectSeq(coll, LAMBDA d : Matches(d, filt))
    IN  IF limit <= 0 THEN <<>> ELSE Prefix(hits, limit)

\* db.list_collection_names(): the collections that hold a document.
CollectionNames ==
    (IF artisan = <<>> THEN <<>> ELSE <<"artisan">>)
    \o (IF registration = <<>> THEN <<>> ELSE <<"registration">>)
    \o (IF event = <<>> THEN <<>> ELSE <<"event">>)

----------------------------------------------------------------------------
(* Responses. *)

\* No response yet.
Pending == [status |-> 0, body |-> <<>>]

Ok(body) == [status |-> 200, body |-> body]

\* raise HTTPException(status_code=500, detail=...)
HttpError(detail) == [status |-> 500, body |-> [detail |-> detail]]

\* An exception that leaves the handler: the framework's generic 500.
Unhandled == [status |-> 500, body |-> "Internal Server Error"]

\* One external call of a request.
Call(name, info) == [call |-> name] @@ info

----------------------------------------------------------------------------
(* Initial state: the process has started, the store is empty, nothing served. *)

Init ==
    /\ db \in {None, Some("handcrafted")}
    /\ artisan = <<>>
    /\ registration = <<>>
    /\ event = <<>>
    /\ sent = <<>>
    /\ pc = "idle"
    /\ req = [op |-> "none"]
    /\ locals = <<>>
    /\ trace = <<>>
    /\ resp = Pending
    /\ created = {}

----------------------------------------------------------------------------
(* GET / and GET /api/hello *)

read_root ==
    /\ pc = "idle"
    /\ req' = [op |-> "read_root"]
    /\ trace' = <<>>
    /\ resp' = Ok([message |-> "Backend running"])
    /\ UNCHANGED <<db, stores, sent, pc, locals, created>>

hello ==
    /\ pc = "idle"
    /\ req' = [op |-> "hello"]
    /\ trace' = <<>>
    /\ resp' = Ok([message |-> "Hello from the backend API!"])
    /\ UNCHANGED <<db, stores, sent, pc, locals, created>>

----------------------------------------------------------------------------
(* GET /test *)

EnvFlag(isSet) == IF isSet THEN "Set" ELSE "Not Set"

\* The diagnostic object test_database returns; listRaised: list_collection_names
\* raised (with message e); urlSet, nameSet: DATABASE_URL, DATABASE_NAME are set.
Diagnostic(listRaised, e, urlSet, nameSet) ==
    [ backend |-> "Running",
      database |->
          IF db = None THEN <<"Available but not initialized", <<>>>>
          ELSE IF listRaised THEN <<"Connected but Error: ", Prefix(e, DiagErrLen)>>
          ELSE <<"Connected & Working", <<>>>>,
      database_url |-> EnvFlag(urlSet),
      database_name |-> EnvFlag(nameSet),
      connection_status |-> IF db = None THEN "Not Connected" ELSE "Connected",
      collections |->
          IF db = None \/ listRaised THEN <<>>
          ELSE Prefix(CollectionNames, DiagCollections) ]

test_database ==
    /\ pc = "idle"
    /\ \E listRaised \in (IF db = None THEN {FALSE} ELSE BOOLEAN),
          urlSet \in BOOLEAN, nameSet \in BOOLEAN :
          /\ req' = [op |-> "test_database"]
          /\ trace' = IF db = None THEN <<>>
                      ELSE <<Call("list_collection_names", [raised |-> listRaised])>>
          /\ resp' = Ok(Diagnostic(listRaised, Msg(DiagErrLen + 1), urlSet, nameSet))
    /\ UNCHANGED <<db, stores, sent, pc, locals, created>>

----------------------------------------------------------------------------
(* POST /api/artisans *)

\* Mutant: the store failure is swallowed and the request answered ok.
CreateArtisanResponseSwallowed(raised, inserted_id, e) ==
    Ok([ok |-> TRUE, id |-> IF raised THEN <<>> ELSE inserted_id])

\* create_artisan's response: the identifier, or HTTP 500 with str(e).
CreateArtisanResponse(raised, inserted_id, e) ==
    IF raised THEN HttpError(e) ELSE Ok([ok |-> TRUE, id |-> inserted_id])

create_artisan(body) ==
    /\ pc = "idle"
    /\ \E rejected \in BOOLEAN :
          LET raised == CreateDocumentRaises(rejected)
              oid == NewOid(1, artisan)
          IN
          /\ req' = [op |-> "create_artisan", body |-> body]
          /\ trace' = <<Call("create_document", [coll |-> "artisan", raised |-> raised])>>
          /\ artisan' = IF raised THEN artisan ELSE Append(artisan, StoredDocument(oid, body))
          /\ resp' = CreateArtisanResponse(raised, InsertedId(oid), StoreError)
          /\ created' = IF resp'.status = 200 THEN created \cup {resp'.body.id} ELSE created
    /\ UNCHANGED <<db, registration, event, sent, pc, locals>>

----------------------------------------------------------------------------
(* GET /api/artisans *)

\* if category: ... ; if region: ... (an empty string is falsy)
Truthy(opt) == opt # None /\ opt[1] # ""

\* Mutant: the category is not put in the filter.
BuildFilterNoCategory(category, region, featured) ==
    [ craft_type |-> None,
      region     |-> IF Truthy(region) THEN region ELSE None,
      featured   |-> IF featured # None THEN featured ELSE None ]

\* The filter list_artisans builds; a field that maps to None is not in the dict.
BuildFilter(category, region, featured) ==
    [ craft_type |-> IF Truthy(category) THEN category ELSE None,
      region     |-> IF Truthy(region) THEN region ELSE None,
      featured   |-> IF featured # None THEN featured ELSE None ]

\* Mutant: the identifier is left under "_id".
NormalizeDocKeepsId(d) == d

\* if isinstance(d.get("_id"), ObjectId): d["id"] = str(d.pop("_id"))
NormalizeDoc(d) ==
    IF "_id" \in DOMAIN d /\ IsObjectId(d["_id"])
    THEN [k \in (DOMAIN d \ {"_id"}) \cup {"id"} |->
             IF k = "id" THEN OidStr(d["_id"].oid) ELSE d[k]]
    ELSE d

NormalizeIds(docs) == [i \in 1..Len(docs) |-> NormalizeDoc(docs[i])]

\* Mutant: docs is bound to an empty list before the try block.
ListExceptResponseEmpty == Ok(<<>>)

\* except Exception: return docs -- docs is unbound when get_documents raised,
\* so the handler itself raises (UnboundLocalError) and the request fails.
ListExceptResponse == Unhandled

\* Mutant: the identifiers are normalised in the stored documents themselves.
list_artisans_in_place(category, region, featured, limit) ==
    /\ pc = "idle"
    /\ \E rejected \in BOOLEAN :
          LET raised == db = None \/ rejected
              filt == BuildFilter(category, region, featured)
          IN
          /\ req' = [op |-> "list_artisans", category |-> category, region |-> region,
                     featured |-> featured, limit |-> limit]
          /\ trace' = <<Call("get_documents", [coll |-> "artisan", raised |-> raised])>>
          /\ resp' = IF raised THEN ListExceptResponse
                     ELSE Ok(NormalizeIds(GetDocuments(artisan, filt, limit)))
          /\ artisan' = IF raised THEN artisan ELSE NormalizeIds(artisan)
    /\ UNCHANGED <<db, registration, event, sent, pc, locals, created>>

list_artisans(category, region, featured, limit) ==
    /\ pc = "idle"
    /\ \E rejected \in BOOLEAN :
          LET raised == db = None \/ rejected
              filt == BuildFilter(category, region, featured)
          IN
          /\ req' = [op |-> "list_artisans", category |-> category, region |-> region,
                     featured |-> featured, limit |-> limit]
          /\ trace' = <<Call("get_documents", [coll |-> "artisan", raised |-> raised])>>
          /\ resp' = IF raised THEN ListExceptResponse
                     ELSE Ok(NormalizeIds(GetDocuments(artisan, filt, limit)))
    /\ UNCHANGED <<db, stores, sent, pc, locals, created>>

----------------------------------------------------------------------------
(* POST /api/register *)

\* Mutant: "if webhook is not None:" (an empty URL counts as configured).
WebhookConfiguredNotNone(webhook) == webhook # None

\* if webhook:
WebhookConfigured(webhook) == Truthy(webhook)

\* Mutant: "forwarded = True" whenever a response came back.
ResponseOkAlways(status_code) == TRUE

\* requests.Response.ok: the status is no client or server error.
ResponseOk(status_code) == ~(400 <= status_code /\ status_code < 600)

\* data = payload.model_dump(); data.update({...})
OutboundData(payload, reg_id) ==
    payload @@ [_source |-> "website", _received_at |-> "utcnow", _registration_id |-> reg_id]

\* Mutant: the error message is not truncated.
ForwardResultUntruncated(outcome) ==
    IF outcome.kind = "response"
    THEN [forwarded |-> ResponseOk(outcome.status_code),
          forward_status |-> IntV(outcome.status_code)]
    ELSE [forwarded |-> FALSE, forward_status |-> StrV(ErrorPrefix \o outcome.msg)]

\* forwarded and forward_status after the try block around requests.post.
ForwardResult(outcome) ==
    IF outcome.kind = "response"
    THEN [forwarded |-> ResponseOk(outcome.status_code),
          forward_status |-> IntV(outcome.status_code)]
    ELSE [forwarded |-> FALSE,
          forward_status |-> StrV(ErrorPrefix \o Prefix(outcome.msg, ForwardErrLen))]

\* forwarded = False; forward_status = None
NotForwarded == [forwarded |-> FALSE, forward_status |-> NullV]

\* return {"ok": True, "id": reg_id, "forwarded": ..., "forward_status": ...}
RegisterResponse(reg_id, fwd) ==
    Ok([ok |-> TRUE, id |-> reg_id, forwarded |-> fwd.forwarded,
        forward_status |-> fwd.forward_status])

\* raise HTTPException(status_code=500, detail=f"DB error: {str(e)}")
RegisterWriteError(e) == HttpError(<<"DB error: ", e>>)

\* First step: reg_id = create_document("registration", payload)
register_write ==
    /\ pc = "idle"
    /\ \E payload \in Registrations, rejected \in BOOLEAN :
          LET raised == CreateDocumentRaises(rejected)
              oid == NewOid(2, registration)
          IN
          /\ req' = [op |-> "register_artisan", body |-> payload]
          /\ trace' = <<Call("create_document", [coll |-> "registration", raised |-> raised])>>
          /\ registration' =
                 IF raised THEN registration
                 ELSE Append(registration, StoredDocument(oid, payload))
          /\ locals' = IF raised THEN <<>> ELSE [payload |-> payload, reg_id |-> InsertedId(oid)]
          /\ pc' = IF raised THEN "idle" ELSE "forward"
          /\ resp' = IF raised THEN RegisterWriteError(StoreError) ELSE Pending
    /\ UNCHANGED <<db, artisan, event, sent, created>>

\* Mutant: a failed POST is retried once.
register_forward_retry ==
    /\ pc = "forward"
    /\ \E webhook \in WebhookValues :
          LET env == Call("getenv", [value |-> webhook]) IN
          IF WebhookConfigured(webhook)
          THEN \E outcome \in PostOutcomes :
                  LET posted == outcome.kind # "import_error"
                      post == [url |-> webhook[1],
                               json |-> OutboundData(locals.payload, locals.reg_id)]
                      call == Call(IF posted THEN "requests.post" ELSE "import requests",
                                   [outcome |-> outcome])
                      again == posted /\ ~ForwardResult(outcome).forwarded
                  IN
                  /\ sent' = IF again THEN sent \o <<post, post>>
                             ELSE IF posted THEN Append(sent, post) ELSE sent
                  /\ trace' = trace \o <<env>> \o (IF again THEN <<call>> ELSE <<>>) \o <<call>>
                  /\ resp' = RegisterResponse(locals.reg_id, ForwardResult(outcome))
          ELSE /\ sent' = sent
               /\ trace' = trace \o <<env>>
               /\ resp' = RegisterResponse(locals.reg_id, NotForwarded)
    /\ pc' = "idle"
    /\ locals' = <<>>
    /\ UNCHANGED <<db, stores, req, created>>

\* Second step: read the webhook URL, forward when configured, and answer.
register_forward ==
    /\ pc = "forward"
    /\ \E webhook \in WebhookValues :
          LET env == Call("getenv", [value |-> webhook]) IN
          IF WebhookConfigured(webhook)
          THEN \E outcome \in PostOutcomes :
                  LET posted == outcome.kind # "import_error" IN
                  /\ sent' = IF posted
                             THEN Append(sent, [url |-> webhook[1],
                                                json |-> OutboundData(locals.payload,
                                                                      locals.reg_id)])
                             ELSE sent
                  /\ trace' = trace \o <<env>>
                                \o <<Call(IF posted THEN "requests.post" ELSE "import requests",
                                          [outcome |-> outcome])>>
                  /\ resp' = RegisterResponse(locals.reg_id, ForwardResult(outcome))
          ELSE /\ sent' = sent
               /\ trace' = trace \o <<env>>
               /\ resp' = RegisterResponse(locals.reg_id, NotForwarded)
    /\ pc' = "idle"
    /\ locals' = <<>>
    /\ UNCHANGED <<db, stores, req, created>>

----------------------------------------------------------------------------
(* POST /api/event *)

\* ev.meta or {}
MetaOrEmpty(meta) == IF meta = None \/ meta[1] = {} THEN {} ELSE meta[1]

\* Mutant: the store failure is surfaced as HTTP 500.
TrackEventResponseSurfaced(raised) ==
    IF raised THEN HttpError(StoreError) ELSE Ok([ok |-> TRUE])

\* except Exception: pass; return {"ok": True}
TrackEventResponse(raised) == Ok([ok |-> TRUE])

track_event ==
    /\ pc = "idle"
    /\ \E ev \in Events, rejected \in BOOLEAN :
          LET raised == CreateDocumentRaises(rejected)
              oid == NewOid(3, event)
              doc == [name |-> ev.name, meta |-> MetaOrEmpty(ev.meta), ts |-> "utcnow"]
          IN
          /\ req' = [op |-> "track_event", body |-> ev]
          /\ trace' = <<Call("create_document", [coll |-> "event", raised |-> raised])>>
          /\ event' = IF raised THEN event ELSE Append(event, StoredDocument(oid, doc))
          /\ resp' = TrackEventResponse(raised)
    /\ UNCHANGED <<db, artisan, registration, sent, pc, locals, created>>

----------------------------------------------------------------------------
(* The service: any request, with any valid input. *)

TotalDocs == Len(artisan) + Len(registration) + Len(event)

CreateArtisan ==
    /\ TotalDocs < MaxDocs
    /\ \E body \in Payloads : create_artisan(body)

ListArtisans ==
    \E category \in Categories, rf \in RegionFeatured, limit \in Limits :
        list_artisans(category, rf[1], rf[2], limit)

Register ==
    /\ TotalDocs < MaxDocs
    /\ register_write

TrackEvent ==
    /\ TotalDocs < MaxDocs
    /\ track_event

Next ==
    \/ read_root
    \/ hello
    \/ test_database
    \/ CreateArtisan
    \/ ListArtisans
    \/ Register
    \/ register_forward
    \/ TrackEvent

Spec == Init /\ [][Next]_vars

(* The directory grown past the default page size: the first BulkFill artisans *)
(* are created with the filler body, the later ones with any body.            *)

BulkCreateArtisan ==
    /\ Len(artisan) < MaxBulk
    /\ \E body \in (IF Len(artisan) < BulkFill THEN {Filler} ELSE Payloads) :
          create_artisan(body)

BulkListArtisans ==
    \E category \in {None, Some("")}, limit \in {1, DefaultLimit} :
        list_artisans(category, None, None, limit)

NextBulk ==
    \/ BulkCreateArtisan
    \/ BulkListArtisans

SpecBulk == Init /\ [][NextBulk]_vars

----------------------------------------------------------------------------
(* Properties. *)

\* The positions of the calls named `name` in the current request's trace.
Calls(name) == {i \in DOMAIN trace : trace[i].call = name}

\* A request of handler `op` has been answered.
Answered(op) == pc = "idle" /\ req.op = op /\ resp.status # 0

\* The string identifiers of the documents of a collection.
Ids(coll) == {OidStr(coll[i]["_id"].oid) : i \in DOMAIN coll}

\* register_artisan's store write succeeded (the request may still be in progress).
RegisterWritten ==
    /\ req.op = "register_artisan"
    /\ trace # <<>>
    /\ ~trace[1].raised

\* The outcome of the forwarding attempt of an answered register_artisan request.
ForwardOutcome == trace[Len(trace)].outcome

\* register_artisan was answered after a forwarding attempt of the given kinds.
ForwardAttempted(kinds) ==
    /\ Answered("register_artisan")
    /\ RegisterWritten
    /\ Len(trace) = 3
    /\ ForwardOutcome.kind \in kinds

(* C1: in every execution of register_artisan the store write comes first and  *)
(* succeeds before any POST to the webhook; at most one POST is issued per     *)
(* request; the write is executed exactly once and is neither repeated nor     *)
(* undone after the forwarding attempt, whatever its outcome.                  *)
C1_WriteOnceBeforeForward ==
    req.op = "register_artisan" =>
        /\ Cardinality(Calls("create_document")) = 1
        /\ trace[1].call = "create_document"
        /\ Cardinality(Calls("requests.post")) <= 1
        /\ Calls("requests.post") # {} => ~trace[1].raised
        /\ RegisterWritten =>
              /\ registration # <<>>
              /\ registration[Len(registration)] = StoredDocument(
                     registration[Len(registration)]["_id"].oid, req.body)
              /\ Cardinality(Ids(registration)) = Len(registration)
        /\ \A i \in DOMAIN sent : sent[i].json._registration_id \in Ids(registration)
        /\ \A i, j \in DOMAIN sent :
              sent[i].json._registration_id = sent[j].json._registration_id => i = j

\* A registration answered after a failed forwarding attempt, the document stored.
C1_Witness ==
    /\ ForwardAttempted({"response", "exception"})
    /\ ~resp.body.forwarded
    /\ Len(sent) = Len(registration)
    /\ resp.body.id \in Ids(registration)

(* C2 as stated: when a forwarding URL is configured and the webhook answers  *)
(* with any non-2xx status, the response is ok=true with the stored            *)
(* registration's id, forwarded=false and forward_status = the status code.    *)
C2_AnyNon2xxNotForwarded ==
    (ForwardAttempted({"response"})
        /\ ~(200 <= ForwardOutcome.status_code /\ ForwardOutcome.status_code < 300)) =>
        /\ resp.status = 200
        /\ resp.body.ok
        /\ resp.body.id = OidStr(registration[Len(registration)]["_id"].oid)
        /\ ~resp.body.forwarded
        /\ resp.body.forward_status = IntV(ForwardOutcome.status_code)

(* C2 amended: when a forwarding URL is configured and the webhook answers,   *)
(* the response is ok=true with the stored registration's id and               *)
(* forward_status = the status code; forwarded=false for every 4xx or 5xx      *)
(* status, and forwarded=true for every other status (1xx and 3xx included).   *)
C2_ErrorStatusNotForwarded ==
    ForwardAttempted({"response"}) =>
        /\ resp.status = 200
        /\ resp.body.ok
        /\ resp.body.id = OidStr(registration[Len(registration)]["_id"].oid)
        /\ resp.body.forward_status = IntV(ForwardOutcome.status_code)
        /\ resp.body.forwarded =
              ~(400 <= ForwardOutcome.status_code /\ ForwardOutcome.status_code < 600)

\* The webhook answered 500 and the registration was answered.
C2_Witness ==
    /\ ForwardAttempted({"response"})
    /\ ForwardOutcome.status_code = 500
    /\ resp.body.forward_status = IntV(500)

(* C3: when no forwarding URL is configured (the variable unset or empty), a  *)
(* registration whose store write succeeded issues no webhook POST, is         *)
(* answered ok=true with forwarded=false and forward_status=null, and the      *)
(* registration is in the store afterwards.                                    *)
C3_NoWebhookNoForward ==
    (Answered("register_artisan") /\ RegisterWritten
        /\ trace[2].value \in {None, Some("")}) =>
        /\ Len(trace) = 2
        /\ Calls("requests.post") = {}
        /\ \A i \in DOMAIN sent : sent[i].json._registration_id # resp.body.id
        /\ resp = Ok([ok |-> TRUE, id |-> resp.body.id, forwarded |-> FALSE,
                      forward_status |-> NullV])
        /\ resp.body.id = OidStr(registration[Len(registration)]["_id"].oid)
        /\ registration[Len(registration)] = StoredDocument(
               registration[Len(registration)]["_id"].oid, req.body)

\* A registration answered with the webhook variable set to the empty string.
C3_Witness ==
    /\ Answered("register_artisan")
    /\ RegisterWritten
    /\ trace[2].value = Some("")
    /\ resp.status = 200

(* C4: once the store write of a registration has succeeded, every forwarding *)
(* outcome (success, remote rejection, transport failure) ends the request     *)
(* with ok=true and the stored registration's id, never an error response; a   *)
(* returned response records its status code; on transport failure             *)
(* forwarded=false and forward_status is "error: " followed by at most the     *)
(* first 120 characters of the error message.                                  *)
C4_ForwardNeverFatal ==
    (Answered("register_artisan") /\ RegisterWritten) =>
        /\ resp.status = 200
        /\ resp.body.ok
        /\ resp.body.id = OidStr(registration[Len(registration)]["_id"].oid)
        /\ ForwardAttempted({"response"}) =>
              resp.body.forward_status = IntV(ForwardOutcome.status_code)
        /\ ForwardAttempted({"response"}) /\ ForwardOutcome.status_code \in 200..299 =>
              resp.body.forwarded
        /\ ForwardAttempted({"exception", "import_error"}) =>
              LET v == resp.body.forward_status.v
                  m == ForwardOutcome.msg
                  k == Len(ErrorPrefix)
              IN  /\ ~resp.body.forwarded
                  /\ resp.body.forward_status.t = "str"
                  /\ Len(v) = k + Min(Len(m), ForwardErrLen)
                  /\ \A i \in 1..k : v[i] = ErrorPrefix[i]
                  /\ \A i \in 1..(Len(v) - k) : v[k + i] = m[i]

\* A transport failure whose message is longer than 120 characters.
C4_Witness ==
    /\ ForwardAttempted({"exception"})
    /\ Len(ForwardOutcome.msg) > ForwardErrLen
    /\ resp.status = 200

(* C5: track_event answers {ok: true} for every valid event body whether the  *)
(* store write succeeds or raises; a failed write never produces an error      *)
(* response and leaves the store unchanged.                                    *)
C5_EventNeverFails ==
    [][req'.op = "track_event" =>
          /\ resp' = Ok([ok |-> TRUE])
          /\ trace'[1].raised => stores' = stores]_vars

\* An event whose store write raised, answered.
C5_Witness ==
    /\ Answered("track_event")
    /\ trace[1].raised
    /\ resp.status = 200

\* GET /api/artisans was called with no filter and the default limit.
NoFilterDefault ==
    /\ req.op = "list_artisans"
    /\ req.category = None /\ req.region = None /\ req.featured = None
    /\ req.limit = DefaultLimit

\* The listing answered holds a record whose id is `id`.
Listed(id) ==
    \E i \in DOMAIN resp.body :
        "id" \in DOMAIN resp.body[i] /\ resp.body[i]["id"] = id

(* C6 as stated: after any sequence of earlier requests, a successful POST    *)
(* /api/artisans returns a non-empty identifier, and a later GET /api/artisans *)
(* with no filter and the default limit lists a record with that identifier.   *)
C6_CreatedIsListed ==
    /\ (Answered("create_artisan") /\ resp.status = 200) => resp.body.id # <<>>
    /\ (Answered("list_artisans") /\ NoFilterDefault /\ resp.status = 200) =>
           \A id \in created : Listed(id)

(* C6 amended: a successful POST /api/artisans returns a non-empty            *)
(* identifier, and a later GET /api/artisans with no filter and the default    *)
(* limit lists a record with that identifier provided the collection holds at  *)
(* most 24 artisans when it is listed.                                         *)
C6_CreatedIsListedWithinLimit ==
    /\ (Answered("create_artisan") /\ resp.status = 200) => resp.body.id # <<>>
    /\ (Answered("list_artisans") /\ NoFilterDefault /\ resp.status = 200
           /\ Len(artisan) <= DefaultLimit) =>
           \A id \in created : Listed(id)

\* The 24th artisan, created with a body other than the filler, is listed.
C6_Witness ==
    /\ Answered("list_artisans") /\ NoFilterDefault /\ resp.status = 200
    /\ Len(artisan) = DefaultLimit
    /\ artisan[DefaultLimit].craft_type = "handloom"
    /\ OidStr(artisan[DefaultLimit]["_id"].oid) \in created
    /\ Listed(OidStr(artisan[DefaultLimit]["_id"].oid))

\* The request names no filter: no category, no region (or empty ones), no featured.
EmptyFilter ==
    /\ req.category \in {None, Some("")}
    /\ req.region \in {None, Some("")}
    /\ req.featured = None

(* C7 as stated: GET /api/artisans with a category parameter returns only     *)
(* records whose craft_type equals it, for every category value including the  *)
(* empty string; with an empty filter it returns at most `limit` records, for  *)
(* every caller-supplied limit.                                                *)
C7_CategoryExactAnyLimit ==
    (Answered("list_artisans") /\ resp.status = 200) =>
        /\ req.category # None =>
              \A i \in DOMAIN resp.body : resp.body[i].craft_type = req.category[1]
        /\ EmptyFilter => Len(resp.body) <= req.limit

(* C7 amended: GET /api/artisans with a non-empty category parameter returns  *)
(* only records whose craft_type equals it; with an empty filter it returns at *)
(* most `limit` records, for every caller-supplied limit of at least 1.        *)
C7_NonEmptyCategoryExact ==
    (Answered("list_artisans") /\ resp.status = 200) =>
        /\ req.category \notin {None, Some("")} =>
              \A i \in DOMAIN resp.body : resp.body[i].craft_type = req.category[1]
        /\ (EmptyFilter /\ req.limit >= 1) => Len(resp.body) <= req.limit

\* A category listing that kept a matching record and left another craft out.
C7_Witness ==
    /\ Answered("list_artisans") /\ resp.status = 200
    /\ req.category = Some("pottery")
    /\ Len(resp.body) >= 1
    /\ \E i \in DOMAIN artisan : artisan[i].craft_type # "pottery"

\* An empty-string category listed a record of another craft_type.
C7_EmptyCategoryListsAll ==
    /\ Answered("list_artisans") /\ resp.status = 200
    /\ req.category = Some("")
    /\ \E i \in DOMAIN resp.body : resp.body[i].craft_type # ""

(* C8: when the store write raises in create_artisan or register_artisan the  *)
(* request ends with a 5xx error response, never ok=true; register_artisan     *)
(* issues no webhook POST in that case; no document is added to the store.     *)
C8_WriteFailureAborts ==
    [][(req'.op \in {"create_artisan", "register_artisan"} /\ trace'[1].raised) =>
          /\ pc' = "idle"
          /\ resp'.status \in 500..599
          /\ "ok" \notin DOMAIN resp'.body
          /\ \A i \in DOMAIN trace' : trace'[i].call # "requests.post"
          /\ sent' = sent
          /\ stores' = stores]_vars

\* A registration whose store write raised, answered with 500.
C8_Witness ==
    /\ Answered("register_artisan")
    /\ trace[1].raised
    /\ resp.status = 500

\* Collection c became c2 by appending exactly one document.
AppendedOne(c, c2) == Len(c2) = Len(c) + 1 /\ SubSeq(c2, 1, Len(c)) = c

(* C9: listing never mutates state: a GET /api/artisans request, succeeding   *)
(* or failing, leaves every collection unchanged, and so do /, /api/hello and  *)
(* /test; only POST /api/artisans, /api/register and /api/event add documents, *)
(* each at most one, each to its own collection.                               *)
C9_OnlyPostsAppend ==
    [][/\ req'.op \in {"list_artisans", "read_root", "hello", "test_database"} =>
             stores' = stores
       /\ stores' # stores =>
             \/ /\ req'.op = "create_artisan"
                /\ AppendedOne(artisan, artisan')
                /\ registration' = registration /\ event' = event
             \/ /\ req'.op = "register_artisan"
                /\ AppendedOne(registration, registration')
                /\ artisan' = artisan /\ event' = event
             \/ /\ req'.op = "track_event"
                /\ AppendedOne(event, event')
                /\ artisan' = artisan /\ registration' = registration]_vars

\* A listing answered with records, the collection as it was.
C9_Witness ==
    /\ Answered("list_artisans") /\ resp.status = 200
    /\ Len(resp.body) >= 1
    /\ Len(resp.body) = Len(artisan)

(* C10: when get_documents raises, list_artisans never answers with success:  *)
(* its except branch returns the unbound `docs`, so the request ends as an     *)
(* unhandled failure; a success response is given only when get_documents      *)
(* returned, and then every record whose stored identifier was an ObjectId     *)
(* carries a string `id` and no `_id` key.                                     *)
C10_ListFailsUnhandled ==
    Answered("list_artisans") =>
        /\ trace[1].raised => resp = Unhandled
        /\ resp.status = 200 =>
              /\ ~trace[1].raised
              /\ \A i \in DOMAIN resp.body :
                    /\ "_id" \notin DOMAIN resp.body[i]
                    /\ "id" \in DOMAIN resp.body[i]
                    /\ resp.body[i]["id"] \in Ids(artisan)
                    /\ resp.body[i]["id"] # <<>>

\* A listing whose store read raised, answered with the generic error.
C10_Witness ==
    /\ Answered("list_artisans")
    /\ trace[1].raised
    /\ resp.status = 500
    /\ artisan # <<>>

====
